---- MODULE Spec2Model ----
(***************************************************************************)
(* Chronicle AI (onchain-chronicler): the analysis server                  *)
(* (src/server/dist/index.js), the React client that drives it             *)
(* (src/frontend/src/App.tsx) and the ChronicleRegistry ledger they share. *)
(*                                                                         *)
(* Specifications over one set of variables:                               *)
(*   SpecWaiter  waitForPendingRequest alone, for every argument pair and  *)
(*               every sequence of read outcomes;                          *)
(*   Spec        POST /api/analyze-transaction runs, concurrently, against *)
(*               the ledger;                                               *)
(*   SpecClient  one page session of the client (handleAnalyze, the three  *)
(*               effects that call analyzeWithBackend, their timers);      *)
(*   SpecStatus  POST /api/check-chronicle-status against the ledger;      *)
(*   SpecApi     one analyze-transaction request, which its client may     *)
(*               abandon, together with the status checks;                 *)
(*   SpecScan    GET /api/leaderboard and GET /api/chronicles, the chunked *)
(*               event scan;                                               *)
(*   SpecBoard   the filter, sort and slice that make the leaderboard.     *)
(* A step of a specification is the code between two awaits; the variables *)
(* of the other specifications stay at NoValue.                            *)
(***************************************************************************)
EXTENDS Integers, Sequences, FiniteSets, TLC

VARIABLES
    waiter,   \* SpecWaiter: the frame of one waitForPendingRequest call
    wobs,     \* SpecWaiter: what that call did so far (reads, delays, time, log)
    runs,     \* Spec: the frame of each POST /api/analyze-transaction request
    ledger,   \* Spec: ChronicleRegistry state for the hash, and its mempool
    client,   \* SpecClient: React state, wagmi hook state and pending timers
    statusCheck, \* SpecStatus, SpecApi: the frame of a POST /api/check-chronicle-status
    scan,     \* SpecScan: the frame of a GET /api/leaderboard or /api/chronicles
    board     \* SpecBoard: the leaderboard data and the list made of it

vars == <<waiter, wobs, runs, ledger, client, statusCheck, scan, board>>

(***************************************************************************)
(* Bounds of the model                                                     *)
(***************************************************************************)
MaxAttemptsArg == 4      \* SpecWaiter also tries maxAttempts = 1..MaxAttemptsArg
NumRuns == 2             \* concurrent analyze-transaction requests
MaxContentLen == 2       \* length of an AI message content, in characters

(***************************************************************************)
(* Program constants                                                       *)
(***************************************************************************)
AnalyzeMaxAttempts == 60     \* waitForPendingRequest(txHash, 60, 2000)
AnalyzeDelayMs == 2000
MsPerSecond == 1000          \* the divisor of the confirmation log line

ZeroAddress == "0x0"         \* ethers.ZeroAddress
Users == {"0xA11CE"}         \* addresses that submit requestChronicle
NoValue == "undefined"       \* JavaScript undefined / null

(***************************************************************************)
(* waitForPendingRequest (index.js 222-241)                                *)
(*                                                                         *)
(* The frame: attempt is the loop variable, pc the await the call is       *)
(* suspended at ("read": contract.pendingRequests, "delay": the            *)
(* setTimeout promise) or "done" once it returned, result its return value.*)
(***************************************************************************)
ReadOutcomes == {"pending", "none", "error"}

WaiterStart(maxAttempts, delayMs) ==
    IF 1 <= maxAttempts
    THEN [attempt |-> 1, maxAttempts |-> maxAttempts, delayMs |-> delayMs,
          pc |-> "read", result |-> FALSE]
    ELSE [attempt |-> 1, maxAttempts |-> maxAttempts, delayMs |-> delayMs,
          pc |-> "done", result |-> FALSE]

\* A loop test that stops one attempt early.
WaiterNextAttemptShort(w) ==
    IF w.attempt + 1 < w.maxAttempts
    THEN [w EXCEPT !.attempt = w.attempt + 1, !.pc = "read"]
    ELSE [w EXCEPT !.attempt = w.attempt + 1, !.pc = "done", !.result = FALSE]

\* attempt++ and the loop test; falling out of the loop returns false.
WaiterNextAttempt(w) ==
    IF w.attempt + 1 <= w.maxAttempts
    THEN [w EXCEPT !.attempt = w.attempt + 1, !.pc = "read"]
    ELSE [w EXCEPT !.attempt = w.attempt + 1, !.pc = "done", !.result = FALSE]

\* A waiter that asks for a second positive read before it returns.
WaiterAfterReadConfirmTwice(w, outcome) ==
    CASE outcome = "pending" -> WaiterNextAttempt(w)
      [] outcome = "none"    -> [w EXCEPT !.pc = "delay"]
      [] outcome = "error"   -> WaiterNextAttempt(w)

\* A waiter whose read is outside the try: a rejected read ends the call.
WaiterAfterReadAbortOnError(w, outcome) ==
    CASE outcome = "pending" -> [w EXCEPT !.pc = "done", !.result = TRUE]
      [] outcome = "none"    -> [w EXCEPT !.pc = "delay"]
      [] outcome = "error"   -> [w EXCEPT !.pc = "done", !.result = FALSE]

\* The read of line 225 settled: a non-zero requester returns true at once, the
\* zero address goes on to the delay, a rejection is caught and the loop goes on.
WaiterAfterRead(w, outcome) ==
    CASE outcome = "pending" -> [w EXCEPT !.pc = "done", !.result = TRUE]
      [] outcome = "none"    -> [w EXCEPT !.pc = "delay"]
      [] outcome = "error"   -> WaiterNextAttempt(w)

\* The setTimeout promise of line 234 resolved.
WaiterAfterDelay(w) == WaiterNextAttempt(w)

\* The number the log line 227 prints: attempt * delayMs / 1000 seconds.
ConfirmedAfterSeconds(w) == (w.attempt * w.delayMs) \div MsPerSecond

(***************************************************************************)
(* SpecWaiter                                                              *)
(***************************************************************************)
WaiterMaxAttempts == (1..MaxAttemptsArg) \cup {AnalyzeMaxAttempts}
WaiterDelays == {AnalyzeDelayMs \div 2, AnalyzeDelayMs}

NoObs == [reads |-> 0, falses |-> 0, errors |-> 0, delays |-> 0,
          elapsed |-> 0, logged |-> -1, trueAt |-> 0, lastError |-> 0]

IdleWaiter == [attempt |-> 0, maxAttempts |-> 0, delayMs |-> 0,
               pc |-> "idle", result |-> FALSE]

WaiterInit ==
    /\ \E m \in WaiterMaxAttempts, d \in WaiterDelays : waiter = WaiterStart(m, d)
    /\ wobs = NoObs
    /\ runs = NoValue
    /\ ledger = NoValue
    /\ client = NoValue
    /\ statusCheck = NoValue
    /\ scan = NoValue
    /\ board = NoValue

WaiterRead ==
    /\ waiter.pc = "read"
    /\ \E outcome \in ReadOutcomes :
         /\ waiter' = WaiterAfterRead(waiter, outcome)
         /\ wobs' = [wobs EXCEPT
                !.reads = @ + 1,
                !.falses = IF outcome = "none" THEN @ + 1 ELSE @,
                !.errors = IF outcome = "error" THEN @ + 1 ELSE @,
                !.lastError = IF outcome = "error" THEN waiter.attempt ELSE @,
                !.trueAt = IF outcome = "pending" THEN waiter.attempt ELSE @,
                !.logged = IF outcome = "pending"
                           THEN ConfirmedAfterSeconds(waiter) ELSE @]
    /\ UNCHANGED <<runs, ledger, client, statusCheck, scan, board>>

WaiterDelay ==
    /\ waiter.pc = "delay"
    /\ waiter' = WaiterAfterDelay(waiter)
    /\ wobs' = [wobs EXCEPT !.delays = @ + 1, !.elapsed = @ + waiter.delayMs]
    /\ UNCHANGED <<runs, ledger, client, statusCheck, scan, board>>

(***************************************************************************)
(* The ledger: ChronicleRegistry state for the one transaction hash H the  *)
(* model follows (flows for different hashes share no state).              *)
(*   pending    pendingRequests[H], ZeroAddress when there is none         *)
(*   chronicle  chronicles[H], the empty string when there is none         *)
(*   requester  the requester named by the ChronicleAdded event            *)
(*   added      the number of ChronicleAdded events emitted for H          *)
(***************************************************************************)
Chars == {"a", " "}
Whitespace == {" "}

RECURSIVE SeqsUpTo(_)
SeqsUpTo(n) ==
    IF n = 0 THEN {<<>>}
    ELSE LET shorter == SeqsUpTo(n - 1)
         IN shorter \cup {Append(s, c) : s \in {t \in shorter : Len(t) = n - 1}, c \in Chars}

Contents == SeqsUpTo(MaxContentLen)

EmptyLedger == [pending |-> ZeroAddress, chronicle |-> <<>>,
                requester |-> ZeroAddress, added |-> 0]

\* requestChronicle(H) from user u: payable, creates the pending request.
LedgerRequestChronicle(l, u) ==
    IF l.pending = ZeroAddress /\ l.added = 0
    THEN [ok |-> TRUE, ledger |-> [l EXCEPT !.pending = u]]
    ELSE [ok |-> FALSE, ledger |-> l]

\* cancelRequest(H): clears the pending request.
LedgerCancelRequest(l) ==
    IF l.pending # ZeroAddress
    THEN [ok |-> TRUE, ledger |-> [l EXCEPT !.pending = ZeroAddress]]
    ELSE [ok |-> FALSE, ledger |-> l]

\* A ledger that accepts addChronicle without a pending request.
LedgerAddChronicleUnchecked(l, narrative) ==
    [ok |-> TRUE,
     ledger |-> [l EXCEPT !.chronicle = narrative, !.requester = l.pending,
                          !.pending = ZeroAddress, !.added = l.added + 1]]

\* addChronicle(H, narrative) from the AI agent: needs the pending request,
\* stores the chronicle, clears the request and emits ChronicleAdded; reverts
\* otherwise.
LedgerAddChronicle(l, narrative) ==
    IF l.pending # ZeroAddress /\ l.added = 0
    THEN [ok |-> TRUE,
          ledger |-> [l EXCEPT !.chronicle = narrative, !.requester = l.pending,
                               !.pending = ZeroAddress, !.added = l.added + 1]]
    ELSE [ok |-> FALSE, ledger |-> l]

(***************************************************************************)
(* Request bodies and ethers.isHexString(txHash, 32)                       *)
(***************************************************************************)
HashBytes == 32

\* A txHash of a request body: given at all, matching /^0x[0-9A-Fa-f]*$/,
\* and the number of hex digits after the prefix.
TxHashInputs ==
    { [given |-> FALSE, hex |-> FALSE, digits |-> 0],
      [given |-> TRUE,  hex |-> FALSE, digits |-> 0],
      [given |-> TRUE,  hex |-> TRUE,  digits |-> 2 * (HashBytes - 1)],
      [given |-> TRUE,  hex |-> FALSE, digits |-> 2 * HashBytes],
      [given |-> TRUE,  hex |-> TRUE,  digits |-> 2 * HashBytes] }

IsHexString(v, nbytes) == v.given /\ v.hex /\ v.digits = 2 * nbytes

\* !txHash || !ethers.isHexString(txHash, 32)
InvalidTxHash(v) == ~v.given \/ ~IsHexString(v, HashBytes)

(***************************************************************************)
(* analyzeTransactionWithAI (index.js 34-82)                               *)
(***************************************************************************)
\* What the Gaia endpoint answers: the fetch rejects, a non-2xx status, a body
\* without choices[0].message, a message without content, or a content string.
AIResponses ==
    { [kind |-> k, content |-> <<>>] :
        k \in {"fetchError", "notOk", "noMessage", "noContent"} }
    \cup { [kind |-> "message", content |-> c] : c \in Contents }

RECURSIVE TrimStart(_)
TrimStart(s) ==
    IF s # <<>> /\ Head(s) \in Whitespace THEN TrimStart(Tail(s)) ELSE s

RECURSIVE TrimEnd(_)
TrimEnd(s) ==
    IF s # <<>> /\ s[Len(s)] \in Whitespace
    THEN TrimEnd(SubSeq(s, 1, Len(s) - 1)) ELSE s

\* String.prototype.trim
Trim(s) == TrimEnd(TrimStart(s))

\* The outcome of analyzeTransactionWithAI on a response: the narrative it
\* returns, or the message of the error it throws.
AnalyzeTransactionWithAI(resp) ==
    CASE resp.kind = "fetchError" ->
            [threw |-> TRUE, error |-> "fetch failed", narrative |-> <<>>]
      [] resp.kind = "notOk" ->
            [threw |-> TRUE, error |-> "Gaia API error", narrative |-> <<>>]
      [] resp.kind = "noMessage" ->
            [threw |-> TRUE, error |-> "Invalid response from Gaia API", narrative |-> <<>>]
      [] resp.kind = "noContent" ->
            [threw |-> TRUE, error |-> "Cannot read properties of undefined (reading 'trim')",
             narrative |-> <<>>]
      [] resp.kind = "message" ->
            [threw |-> FALSE, error |-> NoValue, narrative |-> Trim(resp.content)]

(***************************************************************************)
(* POST /api/analyze-transaction (index.js 243-284)                        *)
(*                                                                         *)
(* The frame of one request: pc is the await it is suspended at            *)
(*   "waiting"  inside waitForPendingRequest (w is the waiter's frame)     *)
(*   "fetch"    provider.getTransaction                                    *)
(*   "ai"       analyzeTransactionWithAI                                   *)
(*   "submit"   contract.addChronicle                                      *)
(*   "wait"     txResponse.wait                                            *)
(* or "idle" before the request arrives and "done" once it was answered.   *)
(* tx is the state of the addChronicle transaction this run sent: "none",  *)
(* "pool" (sent, not mined), "mined" or "reverted". body is the txHash of   *)
(* the request body; abandoned is set once the client closed the           *)
(* connection of a request that was not answered yet.                      *)
(***************************************************************************)
Runs == 1..NumRuns

NoBody == [given |-> FALSE, hex |-> FALSE, digits |-> 0]

NoResponse == [status |-> 0, message |-> NoValue, error |-> NoValue,
               hasNarrative |-> FALSE, narrative |-> <<>>, hasTxHash |-> FALSE]

IdleRun == [pc |-> "idle", body |-> NoBody, abandoned |-> FALSE,
            w |-> IdleWaiter, waited |-> FALSE,
            hasPendingRequest |-> FALSE, narrative |-> <<>>,
            fetches |-> 0, aiCalls |-> 0, aiThrew |-> FALSE, submits |-> 0,
            tx |-> "none", commitFailed |-> FALSE, response |-> NoResponse]

\* waitForPendingRequest returned: its frame is gone, its value is kept.
WaiterReturned(run) ==
    [run EXCEPT !.w = IdleWaiter, !.waited = TRUE, !.hasPendingRequest = run.w.result]

\* res.status(status).json({ message, error })
Respond(run, status, message, error) ==
    [run EXCEPT !.pc = "done",
                !.response = [NoResponse EXCEPT !.status = status,
                                                !.message = message,
                                                !.error = error]]

\* The catch of lines 277-283: every throw inside the try becomes a 500 that
\* carries the thrown error's message.
CatchAll(run, errorMessage) ==
    Respond(run, 500, "An internal server error occurred.", errorMessage)

\* A handler that goes on to the transaction whatever the waiter returned.
AfterWaiterProceeding(run) ==
    IF run.w.pc # "done" THEN run
    ELSE [WaiterReturned(run) EXCEPT !.pc = "fetch", !.fetches = @ + 1]

\* A handler that answers the timeout like any other failure.
AfterWaiterGeneric(run) ==
    IF run.w.pc # "done" THEN run
    ELSE IF ~run.w.result
         THEN CatchAll(WaiterReturned(run), "No pending request found")
         ELSE [WaiterReturned(run) EXCEPT !.pc = "fetch", !.fetches = @ + 1]

\* Lines 250-259, once waitForPendingRequest returned: false answers 400
\* PENDING_REQUEST_NOT_FOUND, true goes on to provider.getTransaction.
AfterWaiter(run) ==
    IF run.w.pc # "done" THEN run
    ELSE IF ~run.w.result
         THEN Respond(WaiterReturned(run), 400,
                      "No pending request found. Please submit a chronicle request from the UI first.",
                      "PENDING_REQUEST_NOT_FOUND")
         ELSE [WaiterReturned(run) EXCEPT !.pc = "fetch", !.fetches = @ + 1]

\* A handler that starts the wait for whatever txHash the body carries.
StartRunUnvalidated(run, txHash) ==
    AfterWaiter([run EXCEPT !.pc = "waiting", !.body = txHash,
                            !.w = WaiterStart(AnalyzeMaxAttempts, AnalyzeDelayMs)])

\* Lines 244-250: validate the body, then enter waitForPendingRequest(txHash, 60, 2000).
StartRun(run, txHash) ==
    IF InvalidTxHash(txHash)
    THEN Respond([run EXCEPT !.body = txHash], 400, "Invalid transaction hash.", NoValue)
    ELSE AfterWaiter([run EXCEPT !.pc = "waiting", !.body = txHash,
                                 !.w = WaiterStart(AnalyzeMaxAttempts, AnalyzeDelayMs)])

\* A handler that hands whatever getTransaction returned to the AI step.
AfterFetchProceeding(run, outcome) ==
    CASE outcome = "error" -> CatchAll(run, "could not fetch transaction")
      [] outcome \in {"null", "tx"} -> [run EXCEPT !.pc = "ai", !.aiCalls = @ + 1]

\* A handler that returns without an answer when the transaction is missing.
AfterFetchSilent(run, outcome) ==
    CASE outcome = "error" -> CatchAll(run, "could not fetch transaction")
      [] outcome = "null"  -> [run EXCEPT !.pc = "returned"]
      [] outcome = "tx"    -> [run EXCEPT !.pc = "ai", !.aiCalls = @ + 1]

\* Lines 259-265, once getTransaction settled: "tx", "null" or "error".
AfterFetch(run, outcome) ==
    CASE outcome = "error" -> CatchAll(run, "could not fetch transaction")
      [] outcome = "null"  ->
            Respond(run, 404, "Transaction not found on Somnia network.", NoValue)
      [] outcome = "tx"    -> [run EXCEPT !.pc = "ai", !.aiCalls = @ + 1]

\* A handler that commits whatever the AI step left, also when it threw.
AfterAIIgnoringThrow(run, resp) ==
    LET out == AnalyzeTransactionWithAI(resp)
    IN [run EXCEPT !.pc = "submit", !.aiThrew = out.threw,
                   !.narrative = out.narrative, !.submits = @ + 1]

\* Lines 265-268, once analyzeTransactionWithAI settled: a throw goes to the
\* catch, a narrative is handed to contract.addChronicle.
AfterAI(run, resp) ==
    LET out == AnalyzeTransactionWithAI(resp)
    IN IF out.threw
       THEN CatchAll([run EXCEPT !.aiThrew = TRUE], out.error)
       ELSE [run EXCEPT !.pc = "submit", !.narrative = out.narrative,
                        !.submits = @ + 1]

\* Lines 271-275: the 200 answer.
RespondSuccess(run) ==
    [run EXCEPT !.pc = "done",
                !.response = [NoResponse EXCEPT !.status = 200,
                                                !.message = "Analysis complete!",
                                                !.hasNarrative = TRUE,
                                                !.narrative = run.narrative,
                                                !.hasTxHash = TRUE]]

\* A handler that answers 200 as soon as the transaction was sent.
AfterSubmitNoWait(run, outcome) ==
    CASE outcome = "error" ->
            [CatchAll(run, "could not send transaction") EXCEPT !.commitFailed = TRUE]
      [] outcome = "sent"  -> RespondSuccess([run EXCEPT !.tx = "pool"])

\* Lines 268-269, once contract.addChronicle settled: the transaction was sent
\* (txResponse) or the call threw.
AfterSubmit(run, outcome) ==
    CASE outcome = "error" ->
            [CatchAll(run, "could not send transaction") EXCEPT !.commitFailed = TRUE]
      [] outcome = "sent"  -> [run EXCEPT !.pc = "wait", !.tx = "pool"]

\* Lines 269-275, once txResponse.wait() settled: "receipt" (mined with
\* status 1), "reverted" (mined with status 0: wait throws) or "error" (the
\* provider failed while waiting).
AfterWait(run, outcome) ==
    CASE outcome = "receipt"  -> RespondSuccess(run)
      [] outcome = "reverted" ->
            [CatchAll(run, "transaction execution reverted") EXCEPT !.commitFailed = TRUE]
      [] outcome = "error"    ->
            [CatchAll(run, "could not fetch receipt") EXCEPT !.commitFailed = TRUE]

(***************************************************************************)
(* Spec: the requests and the ledger                                       *)
(***************************************************************************)
Init ==
    /\ runs = [r \in Runs |-> IdleRun]
    /\ ledger = EmptyLedger
    /\ waiter = NoValue
    /\ wobs = NoValue
    /\ client = NoValue
    /\ statusCheck = NoValue
    /\ scan = NoValue
    /\ board = NoValue

\* A POST /api/analyze-transaction arrives.
Post(r) ==
    /\ runs[r].pc = "idle"
    /\ \E txHash \in TxHashInputs :
         runs' = [runs EXCEPT ![r] = StartRun(runs[r], txHash)]
    /\ UNCHANGED <<waiter, wobs, ledger, client, statusCheck, scan, board>>

\* contract.pendingRequests(txHash) settles with the ledger's value or rejects.
PollRead(r) ==
    /\ runs[r].pc = "waiting"
    /\ runs[r].w.pc = "read"
    /\ \E outcome \in {IF ledger.pending # ZeroAddress THEN "pending" ELSE "none", "error"} :
         runs' = [runs EXCEPT ![r] =
                    AfterWaiter([runs[r] EXCEPT !.w = WaiterAfterRead(runs[r].w, outcome)])]
    /\ UNCHANGED <<waiter, wobs, ledger, client, statusCheck, scan, board>>

\* The inter-attempt delay elapses.
PollDelay(r) ==
    /\ runs[r].pc = "waiting"
    /\ runs[r].w.pc = "delay"
    /\ runs' = [runs EXCEPT ![r] =
                    AfterWaiter([runs[r] EXCEPT !.w = WaiterAfterDelay(runs[r].w)])]
    /\ UNCHANGED <<waiter, wobs, ledger, client, statusCheck, scan, board>>

\* The client closes the connection while the handler is inside
\* waitForPendingRequest. The handler registers no listener for it (there is no
\* req.on('close') and no AbortSignal in lines 222-284): nothing but the
\* connection changes.
Disconnect(r) ==
    /\ runs[r].pc = "waiting"
    /\ ~runs[r].abandoned
    /\ runs' = [runs EXCEPT ![r].abandoned = TRUE]
    /\ UNCHANGED <<waiter, wobs, ledger, client, statusCheck, scan, board>>

\* provider.getTransaction(txHash) settles.
FetchReturns(r) ==
    /\ runs[r].pc = "fetch"
    /\ \E outcome \in {"tx", "null", "error"} :
         runs' = [runs EXCEPT ![r] = AfterFetch(runs[r], outcome)]
    /\ UNCHANGED <<waiter, wobs, ledger, client, statusCheck, scan, board>>

\* The Gaia call settles.
AIReturns(r) ==
    /\ runs[r].pc = "ai"
    /\ \E resp \in AIResponses :
         runs' = [runs EXCEPT ![r] = AfterAI(runs[r], resp)]
    /\ UNCHANGED <<waiter, wobs, ledger, client, statusCheck, scan, board>>

\* contract.addChronicle(txHash, narrative) settles.
SubmitReturns(r) ==
    /\ runs[r].pc = "submit"
    /\ \E outcome \in {"sent", "error"} :
         runs' = [runs EXCEPT ![r] = AfterSubmit(runs[r], outcome)]
    /\ UNCHANGED <<waiter, wobs, ledger, client, statusCheck, scan, board>>

\* The ledger executes the addChronicle transaction run r sent, whether or
\* not the run still waits for it.
Mine(r) ==
    /\ runs[r].tx = "pool"
    /\ LET out == LedgerAddChronicle(ledger, runs[r].narrative)
       IN /\ ledger' = out.ledger
          /\ runs' = [runs EXCEPT ![r].tx = IF out.ok THEN "mined" ELSE "reverted"]
    /\ UNCHANGED <<waiter, wobs, client, statusCheck, scan, board>>

\* txResponse.wait() settles: with the receipt once the transaction was
\* executed, or with a provider error at any time.
WaitReturns(r) ==
    /\ runs[r].pc = "wait"
    /\ \E outcome \in {CASE runs[r].tx = "mined" -> "receipt"
                         [] runs[r].tx = "reverted" -> "reverted"
                         [] OTHER -> "error", "error"} :
         runs' = [runs EXCEPT ![r] = AfterWait(runs[r], outcome)]
    /\ UNCHANGED <<waiter, wobs, ledger, client, statusCheck, scan, board>>

\* A user's requestChronicle(H) is executed.
RequestChronicle ==
    /\ \E u \in Users :
         LET out == LedgerRequestChronicle(ledger, u)
         IN out.ok /\ ledger' = out.ledger
    /\ UNCHANGED <<waiter, wobs, runs, client, statusCheck, scan, board>>

\* The requester's cancelRequest(H) is executed.
CancelRequest ==
    /\ LET out == LedgerCancelRequest(ledger)
       IN out.ok /\ ledger' = out.ledger
    /\ UNCHANGED <<waiter, wobs, runs, client, statusCheck, scan, board>>

Next ==
    \/ \E r \in Runs : Post(r)
    \/ \E r \in Runs : PollRead(r)
    \/ \E r \in Runs : PollDelay(r)
    \/ \E r \in Runs : FetchReturns(r)
    \/ \E r \in Runs : AIReturns(r)
    \/ \E r \in Runs : SubmitReturns(r)
    \/ \E r \in Runs : Mine(r)
    \/ \E r \in Runs : WaitReturns(r)
    \/ RequestChronicle
    \/ CancelRequest

Spec == Init /\ [][Next]_vars

\* Spec with every call a run awaits settling in the end: each ledger read,
\* getTransaction, the AI call, addChronicle and txResponse.wait() returns or
\* throws, and each setTimeout of the waiter fires.
SpecFair ==
    /\ Init
    /\ [][Next]_vars
    /\ \A r \in Runs :
          /\ WF_vars(PollRead(r))
          /\ WF_vars(PollDelay(r))
          /\ WF_vars(FetchReturns(r))
          /\ WF_vars(AIReturns(r))
          /\ WF_vars(SubmitReturns(r))
          /\ WF_vars(WaitReturns(r))

WaiterNext == WaiterRead \/ WaiterDelay

SpecWaiter == WaiterInit /\ [][WaiterNext]_vars

(***************************************************************************)
(* POST /api/check-chronicle-status (index.js 191-220)                     *)
(*                                                                         *)
(* The frame of one request: pc is the await it is suspended at            *)
(* ("chronicles", "pendingRequests", "submissionFee"), or "idle" / "done". *)
(* calls counts the ledger calls the handler has issued. chronicle and     *)
(* pendingRequester are the handler's locals of the same names. In the     *)
(* response the JavaScript values true, false and '' (what '' && ... is)   *)
(* are written "true", "false" and ""; null is the flag chronicleIsNull    *)
(* for the chronicle and JsNull for the requester.                         *)
(***************************************************************************)
JsNull == "null"

NoCheckResponse ==
    [status |-> 0, message |-> NoValue, chronicleExists |-> NoValue,
     requestPending |-> NoValue, chronicleIsNull |-> TRUE, chronicle |-> <<>>,
     requester |-> NoValue, hasSubmissionFee |-> FALSE]

IdleCheck == [pc |-> "idle", body |-> NoBody, calls |-> 0, chronicle |-> <<>>,
              pendingRequester |-> ZeroAddress, response |-> NoCheckResponse]

\* Line 199: chronicle && chronicle.length > 0
ChronicleExists(chronicle) == IF chronicle = <<>> THEN "" ELSE "true"

\* Line 202: pendingRequester && pendingRequester !== ethers.ZeroAddress
\* (an address is a non-empty string, so the && yields the comparison).
RequestPending(pendingRequester) ==
    IF pendingRequester # ZeroAddress THEN "true" ELSE "false"

\* The catch of lines 213-219.
CheckCatch(f) ==
    [f EXCEPT !.pc = "done",
              !.response = [NoCheckResponse EXCEPT
                               !.status = 500,
                               !.message = "Failed to check chronicle status."]]

\* A handler that reads the ledger for whatever txHash the body carries.
StartCheckUnvalidated(txHash) ==
    [IdleCheck EXCEPT !.pc = "chronicles", !.body = txHash, !.calls = 1]

\* Lines 192-198: validate the body, then call contract.chronicles(txHash).
StartCheck(txHash) ==
    IF InvalidTxHash(txHash)
    THEN [IdleCheck EXCEPT !.pc = "done", !.body = txHash,
                           !.response = [NoCheckResponse EXCEPT
                                            !.status = 400,
                                            !.message = "Invalid transaction hash."]]
    ELSE [IdleCheck EXCEPT !.pc = "chronicles", !.body = txHash, !.calls = 1]

\* Lines 198-201, once contract.chronicles settled with a value or rejected.
AfterChronicles(f, outcome) ==
    IF outcome.kind = "error" THEN CheckCatch(f)
    ELSE [f EXCEPT !.pc = "pendingRequests", !.chronicle = outcome.value,
                   !.calls = @ + 1]

\* Lines 201-204, once contract.pendingRequests settled.
AfterPendingRequests(f, outcome) ==
    IF outcome.kind = "error" THEN CheckCatch(f)
    ELSE [f EXCEPT !.pc = "submissionFee", !.pendingRequester = outcome.value,
                   !.calls = @ + 1]

\* A handler that answers with the chronicle and the requester whatever
\* the two flags say.
AfterSubmissionFeeUnguarded(f, outcome) ==
    IF outcome = "error" THEN CheckCatch(f)
    ELSE [f EXCEPT !.pc = "done",
                   !.response = [NoCheckResponse EXCEPT
                       !.status = 200,
                       !.chronicleExists = ChronicleExists(f.chronicle),
                       !.requestPending = RequestPending(f.pendingRequester),
                       !.chronicleIsNull = FALSE,
                       !.chronicle = f.chronicle,
                       !.requester = f.pendingRequester,
                       !.hasSubmissionFee = TRUE]]

\* Lines 204-212, once contract.submissionFee settled: the 200 answer.
AfterSubmissionFee(f, outcome) ==
    IF outcome = "error" THEN CheckCatch(f)
    ELSE LET chronicleExists == ChronicleExists(f.chronicle)
             requestPending == RequestPending(f.pendingRequester)
         IN [f EXCEPT !.pc = "done",
                      !.response = [NoCheckResponse EXCEPT
                          !.status = 200,
                          !.chronicleExists = chronicleExists,
                          !.requestPending = requestPending,
                          !.chronicleIsNull = (chronicleExists # "true"),
                          !.chronicle = IF chronicleExists = "true"
                                        THEN f.chronicle ELSE <<>>,
                          !.requester = IF requestPending = "true"
                                        THEN f.pendingRequester ELSE JsNull,
                          !.hasSubmissionFee = TRUE]]

(***************************************************************************)
(* SpecStatus: status checks against the ledger                            *)
(***************************************************************************)
StatusInit ==
    /\ statusCheck = IdleCheck
    /\ ledger = EmptyLedger
    /\ waiter = NoValue
    /\ wobs = NoValue
    /\ runs = NoValue
    /\ client = NoValue
    /\ scan = NoValue
    /\ board = NoValue

\* A POST /api/check-chronicle-status arrives (the previous one was answered).
CheckPost ==
    /\ statusCheck.pc \in {"idle", "done"}
    /\ \E txHash \in TxHashInputs : statusCheck' = StartCheck(txHash)
    /\ UNCHANGED <<waiter, wobs, runs, ledger, client, scan, board>>

\* contract.chronicles(txHash) settles with the ledger's value or rejects.
ChroniclesRead ==
    /\ statusCheck.pc = "chronicles"
    /\ \E outcome \in {[kind |-> "value", value |-> ledger.chronicle],
                       [kind |-> "error", value |-> <<>>]} :
         statusCheck' = AfterChronicles(statusCheck, outcome)
    /\ UNCHANGED <<waiter, wobs, runs, ledger, client, scan, board>>

\* contract.pendingRequests(txHash) settles with the ledger's value or rejects.
PendingRequestsRead ==
    /\ statusCheck.pc = "pendingRequests"
    /\ \E outcome \in {[kind |-> "value", value |-> ledger.pending],
                       [kind |-> "error", value |-> ZeroAddress]} :
         statusCheck' = AfterPendingRequests(statusCheck, outcome)
    /\ UNCHANGED <<waiter, wobs, runs, ledger, client, scan, board>>

\* contract.submissionFee() settles.
SubmissionFeeRead ==
    /\ statusCheck.pc = "submissionFee"
    /\ \E outcome \in {"fee", "error"} :
         statusCheck' = AfterSubmissionFee(statusCheck, outcome)
    /\ UNCHANGED <<waiter, wobs, runs, ledger, client, scan, board>>

\* The operator's addChronicle(H, narrative) is executed.
AddChronicle ==
    /\ \E narrative \in Contents :
         LET out == LedgerAddChronicle(ledger, narrative)
         IN out.ok /\ ledger' = out.ledger
    /\ UNCHANGED <<waiter, wobs, runs, client, statusCheck, scan, board>>

StatusNext ==
    \/ CheckPost
    \/ ChroniclesRead
    \/ PendingRequestsRead
    \/ SubmissionFeeRead
    \/ RequestChronicle
    \/ CancelRequest
    \/ AddChronicle

SpecStatus == StatusInit /\ [][StatusNext]_vars

(***************************************************************************)
(* SpecApi: one analyze-transaction request, which its client may          *)
(* abandon, and the status checks, served concurrently on one ledger       *)
(***************************************************************************)
ApiRun == CHOOSE r \in Runs : TRUE

ApiInit ==
    /\ runs = [r \in Runs |-> IdleRun]
    /\ statusCheck = IdleCheck
    /\ ledger = EmptyLedger
    /\ waiter = NoValue
    /\ wobs = NoValue
    /\ client = NoValue
    /\ scan = NoValue
    /\ board = NoValue

ApiNext ==
    \/ Post(ApiRun)
    \/ PollRead(ApiRun)
    \/ PollDelay(ApiRun)
    \/ Disconnect(ApiRun)
    \/ FetchReturns(ApiRun)
    \/ AIReturns(ApiRun)
    \/ SubmitReturns(ApiRun)
    \/ Mine(ApiRun)
    \/ WaitReturns(ApiRun)
    \/ RequestChronicle
    \/ CancelRequest
    \/ CheckPost
    \/ ChroniclesRead
    \/ PendingRequestsRead
    \/ SubmissionFeeRead

SpecApi == ApiInit /\ [][ApiNext]_vars

(***************************************************************************)
(* The client: App (App.tsx 23-253)                                        *)
(*                                                                         *)
(* React state (txHash, isLoading, hasAnalyzed, narrative), the state of   *)
(* the two wagmi hooks (write: useWriteContract, receipt:                  *)
(* useWaitForTransactionReceipt), the timers the effects have set and the  *)
(* requests in flight. A closure keeps the values of the render that made  *)
(* it: a timer records the hasAnalyzed and txHash its callback will see.   *)
(*   pc        "checking" while handleAnalyze awaits the status check      *)
(*   errorId   the identity of the hook's confirmError object              *)
(*   clicks    handleAnalyze runs started so far                           *)
(*   posts     per run, the POST /api/analyze-transaction requests sent    *)
(*   statuses  per run, what its status check answered ("" before that)    *)
(*   failedAt  the run during which a POST was first answered with a       *)
(*             failure of the analysis (0: none was)                       *)
(*   reloads, reloadedAt   page reloads so far, and the run count at the   *)
(*             last one                                                    *)
(*   inflight  POSTs not answered yet                                      *)
(* The Analyze button is disabled without a connected wallet, so           *)
(* handleAnalyze runs with an address.                                     *)
(***************************************************************************)
TxInputs == {"", "0x12", "H"}      \* what the input field may hold; H is the hash

\* txHash.length of an input: only H has the 66 characters of a hash.
InputLength(t) == CASE t = "" -> 0 [] t = "0x12" -> 4 [] OTHER -> 66

NoTimer == [armed |-> FALSE, isRequestConfirmed |-> FALSE, txHash |-> "",
            hasAnalyzed |-> FALSE, run |-> 0]

MountedClient ==
    [txHash |-> "", isLoading |-> FALSE, hasAnalyzed |-> FALSE, narrative |-> "",
     pc |-> "idle", write |-> "idle", receipt |-> "idle", errorId |-> 0,
     fallback |-> NoTimer, errorTimers |-> <<>>,
     clicks |-> 0, edits |-> 0, posts |-> <<>>, statuses |-> <<>>,
     inflight |-> 0, fees |-> 0, failedAt |-> 0, reloads |-> 0, reloadedAt |-> 0]

IsConfirming(c) == c.receipt = "confirming"
IsRequestConfirmed(c) == c.receipt = "success"
IsConfirmError(c) == c.receipt = "error"
ConfirmError(c) == IF c.receipt = "error" THEN c.errorId ELSE 0
IsRequestPending(c) == c.write = "pending"
WriteError(c) == c.write = "error"

\* The closure of the current render.
Closure(c) ==
    [armed |-> TRUE, isRequestConfirmed |-> IsRequestConfirmed(c),
     txHash |-> c.txHash, hasAnalyzed |-> c.hasAnalyzed, run |-> c.clicks]

\* fetch(.../api/analyze-transaction) of line 165.
SendPost(c, closure) ==
    [c EXCEPT !.inflight = @ + 1,
              !.posts = IF closure.run \in DOMAIN c.posts
                        THEN [c.posts EXCEPT ![closure.run] = @ + 1] ELSE c.posts]

\* analyzeWithBackend (lines 158-169) up to its await, called from the
\* closure `closure`: the guard reads the closure's hasAnalyzed.
AnalyzeWithBackend(c, closure) ==
    IF closure.hasAnalyzed THEN c
    ELSE SendPost([c EXCEPT !.hasAnalyzed = TRUE], closure)

\* The four effects of lines 101-156, run after the render of `cur`; `prev` is
\* the render before it. An effect runs when one of its dependencies changed.
FallbackDeps(c) == <<IsConfirming(c), IsRequestConfirmed(c), c.txHash, c.hasAnalyzed>>
ConfirmErrorDeps(c) == <<IsConfirmError(c), ConfirmError(c), c.txHash, c.hasAnalyzed>>
ConfirmedDeps(c) == <<IsRequestConfirmed(c), c.txHash, c.hasAnalyzed>>

Effects(prev, cur) ==
    LET \* lines 101-107: a write error ends the loading state
        e1 == IF WriteError(cur) /\ ~WriteError(prev)
              THEN [cur EXCEPT !.isLoading = FALSE]
              ELSE cur
        \* lines 122-137: clear the old fallback timer, set a new one while confirming
        e2 == IF FallbackDeps(prev) # FallbackDeps(cur)
              THEN [e1 EXCEPT !.fallback = IF IsConfirming(cur) THEN Closure(cur) ELSE NoTimer]
              ELSE e1
        \* lines 140-149: a 2 s timer, never cleared
        e3 == IF /\ ConfirmErrorDeps(prev) # ConfirmErrorDeps(cur)
                 /\ IsConfirmError(cur) /\ ~cur.hasAnalyzed /\ cur.txHash # ""
              THEN [e2 EXCEPT !.errorTimers = Append(@, Closure(cur))]
              ELSE e2
        \* lines 152-156
        e4 == IF /\ ConfirmedDeps(prev) # ConfirmedDeps(cur)
                 /\ IsRequestConfirmed(cur) /\ cur.txHash # "" /\ ~cur.hasAnalyzed
              THEN AnalyzeWithBackend(e3, Closure(cur))
              ELSE e3
    IN e4

\* Render `cur` after `prev` and run the effects, again while they set state.
RECURSIVE Render(_, _)
Render(prev, cur) ==
    LET nxt == Effects(prev, cur)
    IN IF nxt = cur THEN cur ELSE Render(cur, nxt)

(***************************************************************************)
(* SpecClient                                                              *)
(***************************************************************************)
MaxClicks == 2       \* handleAnalyze runs in the session
MaxEdits == 2        \* edits of the input field
MaxRefetches == 2    \* confirmError objects the receipt query produces
MaxReloads == 1      \* page reloads in the session

ClientInit ==
    /\ client = MountedClient
    /\ runs = NoValue
    /\ ledger = NoValue
    /\ waiter = NoValue
    /\ wobs = NoValue
    /\ statusCheck = NoValue
    /\ scan = NoValue
    /\ board = NoValue

\* onChange of the input (line 353); the input is disabled while isLoading.
EditTxHash ==
    /\ ~client.isLoading
    /\ client.edits < MaxEdits
    /\ \E t \in TxInputs \ {client.txHash} :
         client' = Render(client, [client EXCEPT !.txHash = t, !.edits = @ + 1])
    /\ UNCHANGED <<waiter, wobs, runs, ledger, statusCheck, scan, board>>

\* handleAnalyze up to its await (lines 196-219); the button is disabled
\* while isLoading || isRequestPending || isConfirming.
HandleAnalyze ==
    /\ ~client.isLoading /\ ~IsRequestPending(client) /\ ~IsConfirming(client)
    /\ client.clicks < MaxClicks
    /\ client' =
         IF client.txHash = "" \/ InputLength(client.txHash) # 66
         THEN Render(client, [client EXCEPT !.narrative = "invalid"])
         ELSE Render(client, [client EXCEPT !.isLoading = TRUE, !.narrative = "",
                                            !.hasAnalyzed = FALSE, !.pc = "checking",
                                            !.clicks = @ + 1,
                                            !.posts = Append(@, 0),
                                            !.statuses = Append(@, "")])
    /\ UNCHANGED <<waiter, wobs, runs, ledger, statusCheck, scan, board>>

\* writeContract (lines 240-246): a new write drops the previous request hash.
WriteContract(c) ==
    [c EXCEPT !.pc = "idle", !.write = "pending", !.receipt = "idle", !.fees = @ + 1]

\* handleAnalyze after the status check settled (lines 221-252). "errorBody" is
\* a 400/500 answer, whose JSON has neither chronicleExists nor requestPending;
\* "rejects" is a fetch or JSON failure.
AfterStatus(c0, outcome) ==
    LET c == [c0 EXCEPT !.statuses[c0.clicks] = outcome]
    IN CASE outcome = "exists"  ->
               [c EXCEPT !.pc = "idle", !.narrative = "chronicle", !.isLoading = FALSE]
         [] outcome = "pending" ->
               [c EXCEPT !.pc = "idle", !.narrative = "pending", !.isLoading = FALSE]
         [] outcome \in {"neither", "errorBody"} -> WriteContract(c)
         [] outcome = "rejects" ->
               [c EXCEPT !.pc = "idle", !.narrative = "failed", !.isLoading = FALSE]

StatusResponds ==
    /\ client.pc = "checking"
    /\ \E outcome \in {"exists", "pending", "neither", "errorBody", "rejects"} :
         client' = Render(client, AfterStatus(client, outcome))
    /\ UNCHANGED <<waiter, wobs, runs, ledger, statusCheck, scan, board>>

\* The wallet answers the write: a request hash, or an error.
WriteSettles ==
    /\ client.write = "pending"
    /\ \E outcome \in {"success", "error"} :
         client' = Render(client,
                     IF outcome = "success"
                     THEN [client EXCEPT !.write = "success", !.receipt = "confirming"]
                     ELSE [client EXCEPT !.write = "error"])
    /\ UNCHANGED <<waiter, wobs, runs, ledger, statusCheck, scan, board>>

\* useWaitForTransactionReceipt settles for the request hash.
ReceiptSettles ==
    /\ client.receipt = "confirming"
    /\ \E outcome \in {"success", "error"} :
         /\ outcome = "error" => client.errorId < MaxRefetches
         /\ client' = Render(client,
                        IF outcome = "success"
                        THEN [client EXCEPT !.receipt = "success"]
                        ELSE [client EXCEPT !.receipt = "error", !.errorId = @ + 1])
    /\ UNCHANGED <<waiter, wobs, runs, ledger, statusCheck, scan, board>>

\* The receipt query is refetched (refetchInterval: 3000 of the query client)
\* while in error: it succeeds, or fails with a new error object.
ReceiptRefetch ==
    /\ client.receipt = "error"
    /\ \E outcome \in {"success", "error"} :
         /\ outcome = "error" => client.errorId < MaxRefetches
         /\ client' = Render(client,
                        IF outcome = "success"
                        THEN [client EXCEPT !.receipt = "success"]
                        ELSE [client EXCEPT !.errorId = @ + 1])
    /\ UNCHANGED <<waiter, wobs, runs, ledger, statusCheck, scan, board>>

\* The 45 s fallback timer fires (lines 128-133).
FallbackFires ==
    /\ client.fallback.armed
    /\ LET t == client.fallback
           c == [client EXCEPT !.fallback = NoTimer]
       IN client' = Render(client,
                      IF ~t.isRequestConfirmed /\ t.txHash # "" /\ ~t.hasAnalyzed
                      THEN AnalyzeWithBackend(c, t)
                      ELSE c)
    /\ UNCHANGED <<waiter, wobs, runs, ledger, statusCheck, scan, board>>

\* A 2 s confirmation-error timer fires (line 146).
ErrorTimerFires ==
    /\ client.errorTimers # <<>>
    /\ LET t == Head(client.errorTimers)
           c == [client EXCEPT !.errorTimers = Tail(@)]
       IN client' = Render(client, AnalyzeWithBackend(c, t))
    /\ UNCHANGED <<waiter, wobs, runs, ledger, statusCheck, scan, board>>

\* analyzeWithBackend after its POST settled (lines 171-193).
PostResponds ==
    /\ client.inflight > 0
    /\ \E outcome \in {"ok", "PENDING_REQUEST_NOT_FOUND", "failed"} :
         client' = Render(client,
                     [client EXCEPT !.inflight = @ - 1, !.isLoading = FALSE,
                                    !.narrative = IF outcome = "ok" THEN "result" ELSE outcome,
                                    !.failedAt = IF outcome = "failed" /\ @ = 0
                                                 THEN client.clicks ELSE @])
    /\ UNCHANGED <<waiter, wobs, runs, ledger, statusCheck, scan, board>>

\* The page is reloaded: App mounts again with the initial state of its
\* useState and wagmi hooks (lines 23-120); the timers of the old page are
\* gone and the answers to its requests are dropped.
Reload ==
    /\ client.reloads < MaxReloads
    /\ client' = [MountedClient EXCEPT !.clicks = client.clicks,
                                       !.edits = client.edits,
                                       !.posts = client.posts,
                                       !.statuses = client.statuses,
                                       !.fees = client.fees,
                                       !.failedAt = client.failedAt,
                                       !.reloads = client.reloads + 1,
                                       !.reloadedAt = client.clicks]
    /\ UNCHANGED <<waiter, wobs, runs, ledger, statusCheck, scan, board>>

ClientNext ==
    \/ Reload
    \/ EditTxHash
    \/ HandleAnalyze
    \/ StatusResponds
    \/ WriteSettles
    \/ ReceiptSettles
    \/ ReceiptRefetch
    \/ FallbackFires
    \/ ErrorTimerFires
    \/ PostResponds

SpecClient == ClientInit /\ [][ClientNext]_vars

(***************************************************************************)
(* The chunked event scans: GET /api/leaderboard (index.js 89-142) and     *)
(* GET /api/chronicles (index.js 144-189)                                  *)
(*                                                                         *)
(* The chain a scan reads is its height and the events of the scanned      *)
(* kind in log order (RequestSubmitted for the leaderboard, ChronicleAdded *)
(* for the chronicles). An event is                                        *)
(*   block   the block that holds it                                       *)
(*   key     args.user of a RequestSubmitted, args.txHash of a             *)
(*           ChronicleAdded                                                *)
(*   valid   the handler's test on the event's args passes (line 104: the  *)
(*           user is there; line 160: txHash, narrative and requester are  *)
(*           all non-empty)                                                *)
(* Events are named by their index in the chain's sequence.                *)
(***************************************************************************)
CHUNK_SIZE == 1000
LOOKBACK_BLOCKS == 10000
CHRONICLES_LOOKBACK_BLOCKS == 50000
TopCount == 10

MaxEvents == 2           \* events on the chain
MaxChunkFailures == 1    \* chunk queries that reject during one scan

Max(a, b) == IF a >= b THEN a ELSE b
Min(a, b) == IF a <= b THEN a ELSE b

ScanKinds == {"leaderboard", "chronicles"}
EventKeys == {"k1", "k2"}
PointValues == {0, 12, 50}

LookbackBlocks(kind) ==
    IF kind = "leaderboard" THEN LOOKBACK_BLOCKS ELSE CHRONICLES_LOOKBACK_BLOCKS

\* Math.max(0, currentBlock - LOOKBACK_BLOCKS)
StartBlock(kind, currentBlock) == Max(0, currentBlock - LookbackBlocks(kind))

\* Math.min(fromBlock + CHUNK_SIZE - 1, currentBlock)
ToBlock(fromBlock, currentBlock) == Min(fromBlock + CHUNK_SIZE - 1, currentBlock)

\* A loop that steps one block too far.
NextFromBlockSkipping(fromBlock) == fromBlock + CHUNK_SIZE + 1

\* fromBlock += CHUNK_SIZE
NextFromBlock(fromBlock) == fromBlock + CHUNK_SIZE

\* contract.queryFilter(filter, fromBlock, toBlock): the events of the blocks
\* fromBlock..toBlock, both included, in log order.
RECURSIVE QueryFrom(_, _, _, _)
QueryFrom(events, fromBlock, toBlock, i) ==
    IF i > Len(events) THEN <<>>
    ELSE IF fromBlock <= events[i].block /\ events[i].block <= toBlock
         THEN <<i>> \o QueryFrom(events, fromBlock, toBlock, i + 1)
         ELSE QueryFrom(events, fromBlock, toBlock, i + 1)

QueryFilter(events, fromBlock, toBlock) == QueryFrom(events, fromBlock, toBlock, 1)

Range(s) == {s[i] : i \in DOMAIN s}

\* The sequences over S of length up to n.
SeqsOver(S, n) == UNION {[1..k -> S] : k \in 0..n}

\* block.timestamp: the model's clock ticks once per block.
BlockTimestamp(block) == block

\* userAddressesSet.add(user): a Set keeps insertion order and no duplicates.
SetAdd(users, user) == IF user \in Range(users) THEN users ELSE Append(users, user)

\* A list that takes every entry, whatever its key.
MapSetAppending(map, entry) == Append(map, entry)

\* chroniclesMap.set(txHash, entry): a Map keeps the position of a key it
\* already has and replaces its value.
MapSet(map, entry) ==
    IF \E i \in DOMAIN map : map[i].txHash = entry.txHash
    THEN [i \in DOMAIN map |->
            IF map[i].txHash = entry.txHash THEN entry ELSE map[i]]
    ELSE Append(map, entry)

\* Lines 103-107: events.forEach over the events of one chunk.
RECURSIVE AddUsers(_, _, _)
AddUsers(users, events, found) ==
    IF found = <<>> THEN users
    ELSE LET e == events[Head(found)]
         IN AddUsers(IF e.valid THEN SetAdd(users, e.key) ELSE users,
                     events, Tail(found))

\* Lines 156-169: the for loop over the events of one chunk. getBlock of the
\* event failAt (0: of none) rejects, which leaves the loop for the chunk's
\* catch.
RECURSIVE AddChronicles(_, _, _, _)
AddChronicles(map, events, found, failAt) ==
    IF found = <<>> THEN [map |-> map, threw |-> FALSE]
    ELSE LET i == Head(found)
             e == events[i]
         IN IF ~e.valid THEN AddChronicles(map, events, Tail(found), failAt)
            ELSE IF i = failAt THEN [map |-> map, threw |-> TRUE]
            ELSE AddChronicles(
                     MapSet(map, [txHash |-> e.key, event |-> i,
                                  timestamp |-> BlockTimestamp(e.block)]),
                     events, Tail(found), failAt)

\* Array.prototype.sort is stable: an element goes behind the elements that
\* do not sort after it.
RECURSIVE InsertByPoints(_, _)
InsertByPoints(sorted, x) ==
    IF sorted = <<>> THEN <<x>>
    ELSE IF Head(sorted).points >= x.points
         THEN <<Head(sorted)>> \o InsertByPoints(Tail(sorted), x)
         ELSE <<x>> \o sorted

\* .sort((a, b) => b.points - a.points)
RECURSIVE SortByPoints(_)
SortByPoints(s) ==
    IF s = <<>> THEN <<>>
    ELSE InsertByPoints(SortByPoints(SubSeq(s, 1, Len(s) - 1)), s[Len(s)])

\* A list left in the order of the map.
SortByTimestampNone(s) == s

RECURSIVE InsertByTimestamp(_, _)
InsertByTimestamp(sorted, x) ==
    IF sorted = <<>> THEN <<x>>
    ELSE IF Head(sorted).timestamp >= x.timestamp
         THEN <<Head(sorted)>> \o InsertByTimestamp(Tail(sorted), x)
         ELSE <<x>> \o sorted

\* .sort((a, b) => b.timestamp - a.timestamp)
RECURSIVE SortByTimestamp(_)
SortByTimestamp(s) ==
    IF s = <<>> THEN <<>>
    ELSE InsertByTimestamp(SortByTimestamp(SubSeq(s, 1, Len(s) - 1)), s[Len(s)])

\* .filter(user => user.points > 0)
RECURSIVE FilterPositive(_)
FilterPositive(s) ==
    IF s = <<>> THEN <<>>
    ELSE IF Head(s).points > 0
         THEN <<Head(s)>> \o FilterPositive(Tail(s))
         ELSE FilterPositive(Tail(s))

\* .slice(0, n)
Slice(s, n) == SubSeq(s, 1, Min(n, Len(s)))

\* A list that is filtered and cut but left in the order of the addresses.
TopUsersUnsorted(leaderboardData) ==
    Slice(FilterPositive(leaderboardData), TopCount)

\* Lines 129-132: filter, sort, slice.
TopUsers(leaderboardData) ==
    Slice(SortByPoints(FilterPositive(leaderboardData)), TopCount)

(***************************************************************************)
(* The frame of one scan request                                           *)
(*   pc        "height" (awaiting getBlockNumber), "query" (awaiting the   *)
(*             queryFilter of the chunk at fromBlock), "points" (awaiting  *)
(*             the Promise.all of the userPoints reads), "done"            *)
(*   users, chronicles   userAddressesSet and chroniclesMap                *)
(* and, to state the properties:                                           *)
(*   lastTo    toBlock of the last chunk queried                           *)
(*   queries   chunk queries issued                                        *)
(*   returned  the events the successful queries returned, in order        *)
(*   failures, lost   the chunk queries that rejected and the events of    *)
(*             their chunks                                                *)
(*   enrichFailed   the events whose getBlock rejected                     *)
(*   reads     per address, what its userPoints read settled with          *)
(*   counters  the ledger's userPoints of every address at that time       *)
(***************************************************************************)
NoScanResponse == [status |-> 0, leaderboard |-> <<>>, chronicles |-> <<>>, total |-> 0]

NoRead == [ok |-> FALSE, points |-> 0]

ScanStart(kind, height, events) ==
    [kind |-> kind, chain |-> [height |-> height, events |-> events],
     pc |-> "height", heightFailed |-> FALSE,
     currentBlock |-> 0, startBlock |-> 0, fromBlock |-> 0, lastTo |-> 0,
     queries |-> 0, returned |-> <<>>, failures |-> 0, lost |-> {},
     enrichFailed |-> {}, users |-> <<>>, chronicles |-> <<>>,
     reads |-> [k \in EventKeys |-> NoRead],
     counters |-> [k \in EventKeys |-> 0], response |-> NoScanResponse]

\* The outer catch (lines 135-141, 182-188).
ScanCatch(f) ==
    [f EXCEPT !.pc = "done", !.response = [NoScanResponse EXCEPT !.status = 500]]

\* Lines 91-97 and 146-151, once provider.getBlockNumber settled: with the
\* chain's height, or rejected. startBlock <= currentBlock, so the loop
\* issues its first query.
AfterHeight(f, outcome) ==
    IF outcome = "error" THEN ScanCatch([f EXCEPT !.heightFailed = TRUE])
    ELSE LET currentBlock == f.chain.height
             startBlock == StartBlock(f.kind, currentBlock)
         IN [f EXCEPT !.pc = "query", !.currentBlock = currentBlock,
                      !.startBlock = startBlock, !.fromBlock = startBlock,
                      !.lastTo = startBlock - 1, !.queries = 1]

\* Lines 175-180: the 200 answer of /api/chronicles.
RespondChronicles(f) ==
    LET chronicles == SortByTimestamp(f.chronicles)
    IN [f EXCEPT !.pc = "done",
                 !.response = [NoScanResponse EXCEPT !.status = 200,
                                                     !.chronicles = chronicles,
                                                     !.total = Len(chronicles)]]

\* The end of one pass of the for loop (lines 97, 151): step fromBlock, then
\* query the next chunk or leave the loop.
EndOfChunk(f) ==
    LET g == [f EXCEPT !.lastTo = ToBlock(f.fromBlock, f.currentBlock),
                       !.fromBlock = NextFromBlock(f.fromBlock)]
    IN IF g.fromBlock <= g.currentBlock
       THEN [g EXCEPT !.queries = @ + 1]
       ELSE IF g.kind = "leaderboard"
            THEN [g EXCEPT !.pc = "points"]
            ELSE RespondChronicles(g)

\* A scan that gives up at the first chunk that fails and answers with what
\* it has.
AfterQueryStopping(f, outcome) ==
    LET found == QueryFilter(f.chain.events, f.fromBlock,
                             ToBlock(f.fromBlock, f.currentBlock))
    IN IF outcome.kind = "error"
       THEN LET g == [f EXCEPT !.failures = @ + 1, !.lost = @ \cup Range(found),
                               !.lastTo = ToBlock(f.fromBlock, f.currentBlock)]
            IN IF g.kind = "leaderboard" THEN [g EXCEPT !.pc = "points"]
               ELSE RespondChronicles(g)
       ELSE IF f.kind = "leaderboard"
            THEN EndOfChunk([f EXCEPT !.returned = @ \o found,
                                      !.users = AddUsers(@, f.chain.events, found)])
            ELSE LET out == AddChronicles(f.chronicles, f.chain.events, found,
                                          outcome.failAt)
                 IN EndOfChunk([f EXCEPT
                        !.returned = @ \o found,
                        !.chronicles = out.map,
                        !.enrichFailed = IF out.threw THEN @ \cup {outcome.failAt}
                                         ELSE @])

\* A scan whose chunk failures reach the outer catch.
AfterQueryRethrowing(f, outcome) ==
    LET found == QueryFilter(f.chain.events, f.fromBlock,
                             ToBlock(f.fromBlock, f.currentBlock))
    IN IF outcome.kind = "error"
       THEN ScanCatch([f EXCEPT !.failures = @ + 1, !.lost = @ \cup Range(found)])
       ELSE IF f.kind = "leaderboard"
            THEN EndOfChunk([f EXCEPT !.returned = @ \o found,
                                      !.users = AddUsers(@, f.chain.events, found)])
            ELSE LET out == AddChronicles(f.chronicles, f.chain.events, found,
                                          outcome.failAt)
                 IN EndOfChunk([f EXCEPT
                        !.returned = @ \o found,
                        !.chronicles = out.map,
                        !.enrichFailed = IF out.threw THEN @ \cup {outcome.failAt}
                                         ELSE @])

\* Lines 98-112 and 152-173, once the queryFilter of the chunk at fromBlock
\* settled: rejected (the chunk's catch logs it), or with the chunk's events,
\* which the leaderboard adds to its set and the chronicles enrich and add
\* to the map; outcome.failAt is the event whose getBlock rejects (0: none).
AfterQuery(f, outcome) ==
    LET found == QueryFilter(f.chain.events, f.fromBlock,
                             ToBlock(f.fromBlock, f.currentBlock))
    IN IF outcome.kind = "error"
       THEN EndOfChunk([f EXCEPT !.failures = @ + 1, !.lost = @ \cup Range(found)])
       ELSE IF f.kind = "leaderboard"
            THEN EndOfChunk([f EXCEPT !.returned = @ \o found,
                                      !.users = AddUsers(@, f.chain.events, found)])
            ELSE LET out == AddChronicles(f.chronicles, f.chain.events, found,
                                          outcome.failAt)
                 IN EndOfChunk([f EXCEPT
                        !.returned = @ \o found,
                        !.chronicles = out.map,
                        !.enrichFailed = IF out.threw THEN @ \cup {outcome.failAt}
                                         ELSE @])

\* The events user has on the chain.
EventCount(events, user) == Cardinality({i \in DOMAIN events : events[i].key = user})

\* A leaderboard that shows the number of a user's events when the counter
\* read failed.
AfterPointsEventDerived(f, reads) ==
    LET leaderboardData ==
            [i \in DOMAIN f.users |->
                [address |-> f.users[i],
                 points |-> IF reads[f.users[i]].ok THEN reads[f.users[i]].points
                            ELSE EventCount(f.chain.events, f.users[i])]]
    IN [f EXCEPT !.pc = "done", !.reads = reads,
                 !.response = [NoScanResponse EXCEPT
                                  !.status = 200,
                                  !.leaderboard = TopUsers(leaderboardData)]]

\* Lines 114-133, once every contract.userPoints(address) settled: reads[a] is
\* the counter the ledger returned for a, or a rejection, which counts as 0.
AfterPoints(f, reads) ==
    LET leaderboardData ==
            [i \in DOMAIN f.users |->
                [address |-> f.users[i],
                 points |-> IF reads[f.users[i]].ok THEN reads[f.users[i]].points
                            ELSE 0]]
    IN [f EXCEPT !.pc = "done", !.reads = reads,
                 !.response = [NoScanResponse EXCEPT
                                  !.status = 200,
                                  !.leaderboard = TopUsers(leaderboardData)]]

(***************************************************************************)
(* SpecScan: one scan of either endpoint over a chain chosen at the start  *)
(***************************************************************************)
\* Chain heights around the chunk width and the two lookbacks.
BlockHeights ==
    {0, CHUNK_SIZE - 1, CHUNK_SIZE, 2 * CHUNK_SIZE + 345,
     LOOKBACK_BLOCKS + 2345, CHRONICLES_LOOKBACK_BLOCKS + 11234}

\* Where events are placed: just outside and at the ends of the scanned
\* range, and on both sides of the first chunk boundary.
EventBlocks(kind, height) ==
    LET startBlock == StartBlock(kind, height)
    IN {b \in {startBlock - 1, startBlock, startBlock + CHUNK_SIZE - 1,
               startBlock + CHUNK_SIZE, height - 1, height} :
          0 <= b /\ b <= height}

\* The chains of a kind and height: up to MaxEvents events in block order.
Chains(kind, height) ==
    LET Event == [block : EventBlocks(kind, height), key : EventKeys,
                  valid : IF kind = "leaderboard" THEN {TRUE} ELSE BOOLEAN]
    IN {s \in SeqsOver(Event, MaxEvents) :
          \A i \in 1..(Len(s) - 1) : s[i].block <= s[i + 1].block}

ScanInit ==
    /\ \E kind \in ScanKinds, height \in BlockHeights :
         \E events \in Chains(kind, height) :
            scan = ScanStart(kind, height, events)
    /\ waiter = NoValue
    /\ wobs = NoValue
    /\ runs = NoValue
    /\ ledger = NoValue
    /\ client = NoValue
    /\ statusCheck = NoValue
    /\ board = NoValue

\* provider.getBlockNumber() settles.
HeightReturns ==
    /\ scan.pc = "height"
    /\ \E outcome \in {"height", "error"} : scan' = AfterHeight(scan, outcome)
    /\ UNCHANGED <<waiter, wobs, runs, ledger, client, statusCheck, board>>

\* contract.queryFilter(filter, fromBlock, toBlock) settles; for the
\* chronicles the getBlock calls of the chunk's events settle with it.
QueryReturns ==
    /\ scan.pc = "query"
    /\ LET found == QueryFilter(scan.chain.events, scan.fromBlock,
                                ToBlock(scan.fromBlock, scan.currentBlock))
           failAts == IF scan.kind = "chronicles"
                      THEN {0} \cup {i \in Range(found) : scan.chain.events[i].valid}
                      ELSE {0}
       IN \E outcome \in {[kind |-> "events", failAt |-> k] : k \in failAts}
                         \cup {[kind |-> "error", failAt |-> 0]} :
            /\ outcome.kind = "error" => scan.failures < MaxChunkFailures
            /\ scan' = AfterQuery(scan, outcome)
    /\ UNCHANGED <<waiter, wobs, runs, ledger, client, statusCheck, board>>

\* The userPoints reads of Promise.all settle, each with the ledger's counter
\* for the address or rejected; the ledger has a counter for every address,
\* read or not.
PointsReturn ==
    /\ scan.pc = "points"
    /\ \E counters \in [EventKeys -> PointValues], rejected \in SUBSET Range(scan.users) :
         LET reads == [k \in EventKeys |->
                         IF k \in Range(scan.users) /\ k \notin rejected
                         THEN [ok |-> TRUE, points |-> counters[k]]
                         ELSE NoRead]
         IN scan' = [AfterPoints(scan, reads) EXCEPT !.counters = counters]
    /\ UNCHANGED <<waiter, wobs, runs, ledger, client, statusCheck, board>>

ScanNext ==
    \/ HeightReturns
    \/ QueryReturns
    \/ PointsReturn

SpecScan == ScanInit /\ [][ScanNext]_vars

(***************************************************************************)
(* SpecBoard: the list made of the leaderboard data (index.js 129-132)     *)
(*                                                                         *)
(* leaderboardData has one entry per address of userAddressesSet, in the   *)
(* set's order; the addresses are written 1, 2, ... in that order.         *)
(***************************************************************************)
MaxUsers == 11       \* addresses in leaderboardData

LeaderboardDatas ==
    UNION {[1..n -> PointValues] : n \in 0..MaxUsers}

LeaderboardData(points) ==
    [i \in DOMAIN points |-> [address |-> i, points |-> points[i]]]

BoardInit ==
    /\ \E points \in LeaderboardDatas :
         board = [pc |-> "data", leaderboardData |-> LeaderboardData(points),
                  topUsers |-> <<>>]
    /\ waiter = NoValue
    /\ wobs = NoValue
    /\ runs = NoValue
    /\ ledger = NoValue
    /\ client = NoValue
    /\ statusCheck = NoValue
    /\ scan = NoValue

\* Lines 129-133: the list is made and sent.
MakeTopUsers ==
    /\ board.pc = "data"
    /\ board' = [board EXCEPT !.pc = "done",
                              !.topUsers = TopUsers(board.leaderboardData)]
    /\ UNCHANGED <<waiter, wobs, runs, ledger, client, statusCheck, scan>>

BoardNext == MakeTopUsers

SpecBoard == BoardInit /\ [][BoardNext]_vars

(***************************************************************************)
(* Properties of waitForPendingRequest, under SpecWaiter                   *)
(***************************************************************************)
WaiterReturnedTrue == waiter.pc = "done" /\ waiter.result
WaiterReturnedFalse == waiter.pc = "done" /\ ~waiter.result

\* C3: when the reads of attempts 1..k-1 answer "no pending request" and the
\* read of attempt k answers "pending", the call returns true at attempt k,
\* having made exactly k reads and k-1 delays, and does nothing afterwards.
C3_SuccessAtAttemptK ==
    (wobs.trueAt > 0 /\ wobs.errors = 0) =>
        /\ WaiterReturnedTrue
        /\ waiter.attempt = wobs.trueAt
        /\ wobs.reads = wobs.trueAt
        /\ wobs.falses = wobs.trueAt - 1
        /\ wobs.delays = wobs.trueAt - 1

C3_Witness ==
    /\ WaiterReturnedTrue
    /\ wobs.errors = 0
    /\ wobs.trueAt = waiter.maxAttempts
    /\ waiter.maxAttempts = AnalyzeMaxAttempts

\* C4: a call that never reads a pending request returns false after exactly
\* maxAttempts reads: it never stops before them and never reads once more.
C4_FailureAfterExactlyMaxAttempts ==
    /\ wobs.reads <= waiter.maxAttempts
    /\ WaiterReturnedFalse => wobs.reads = waiter.maxAttempts /\ wobs.trueAt = 0
    /\ (wobs.trueAt = 0 /\ wobs.reads = waiter.maxAttempts /\ waiter.pc # "delay")
          => WaiterReturnedFalse

C4_Witness ==
    /\ WaiterReturnedFalse
    /\ waiter.maxAttempts = AnalyzeMaxAttempts
    /\ wobs.reads = AnalyzeMaxAttempts
    /\ wobs.falses > 0

\* C5: a read that rejects ends only its own attempt: the call does not
\* return or throw because of it while attempts are left, the attempt is
\* counted, and the next attempt's read follows.
C5_ReadErrorIsTransient ==
    [][ (waiter.pc = "read" /\ wobs'.errors = wobs.errors + 1) =>
            /\ waiter'.attempt = waiter.attempt + 1
            /\ IF waiter.attempt < waiter.maxAttempts
               THEN waiter'.pc = "read"
               ELSE waiter'.pc = "done" /\ ~waiter'.result ]_vars

\* A call that returned true although an earlier read of it had rejected.
C5_Witness ==
    /\ WaiterReturnedTrue
    /\ wobs.errors > 0
    /\ wobs.lastError = wobs.trueAt - 1

\* C6: with delayMs = 2000 and the first positive read at attempt 3 (attempts
\* 1 and 2 read "no pending request"), the call returns once 6000 ms of delay
\* have elapsed, as its log line says, and not earlier.
C6_SuccessAtAttempt3After6000ms ==
    (WaiterReturnedTrue /\ wobs.trueAt = 3 /\ wobs.falses = 2
        /\ waiter.delayMs = AnalyzeDelayMs) =>
        /\ wobs.elapsed = 3 * AnalyzeDelayMs
        /\ wobs.elapsed = wobs.logged * MsPerSecond

C7_TimeoutIsPendingRequestNotFound ==
    \A r \in Runs :
        (runs[r].waited /\ ~runs[r].hasPendingRequest) =>
            /\ runs[r].pc = "done"
            /\ runs[r].response.status = 400
            /\ runs[r].response.error = "PENDING_REQUEST_NOT_FOUND"
            /\ runs[r].fetches = 0
            /\ runs[r].aiCalls = 0
            /\ runs[r].submits = 0
            /\ runs[r].tx = "none"

C7_Witness ==
    \E r \in Runs : runs[r].waited /\ ~runs[r].hasPendingRequest

\* C8: a request whose AI call threw is answered 500 and never submits
\* addChronicle.
C8_AIThrowMeansNoCommit ==
    \A r \in Runs :
        runs[r].aiThrew =>
            /\ runs[r].pc = "done"
            /\ runs[r].response.status = 500
            /\ runs[r].submits = 0
            /\ runs[r].tx = "none"

C8_Witness ==
    \E r \in Runs : runs[r].aiThrew /\ runs[r].aiCalls = 1 /\ runs[r].pc = "done"

\* C9: a request whose commit step failed (addChronicle or the receipt wait
\* threw) still returns the narrative it generated, and its submission
\* recorded no chronicle.
C9_CommitFailureStillReturnsNarrative ==
    \A r \in Runs :
        runs[r].commitFailed =>
            /\ runs[r].response.hasNarrative
            /\ runs[r].response.narrative = runs[r].narrative
            /\ runs[r].tx # "mined"

\* C10: a 200 answer is sent only by a request that submitted addChronicle
\* and whose transaction was executed successfully; it carries the narrative
\* and the transaction hash.
C10_SuccessOnlyAfterConfirmedCommit ==
    \A r \in Runs :
        runs[r].response.status = 200 =>
            /\ runs[r].submits = 1
            /\ runs[r].tx = "mined"
            /\ runs[r].response.hasNarrative
            /\ runs[r].response.narrative = runs[r].narrative
            /\ runs[r].response.hasTxHash

C10_Witness ==
    \E r \in Runs : runs[r].response.status = 200 /\ runs[r].tx = "mined"

(***************************************************************************)
(* Properties of the client, under SpecClient                              *)
(***************************************************************************)
\* C2: within one handleAnalyze run at most one POST /api/analyze-transaction
\* is sent, however the confirmation effect, the fallback timer and the
\* confirmation-error timers fire: a second analyzeWithBackend call sends
\* nothing.
C2_AtMostOnePostPerRun ==
    \A run \in DOMAIN client.posts : client.posts[run] <= 1


(***************************************************************************)
(* Properties of the two POST endpoints, under SpecApi and SpecStatus      *)
(***************************************************************************)
\* C11: a request of either POST endpoint whose txHash is missing or is not a
\* 32-byte hex value is answered 400, and its handler has issued no ledger
\* call (no pendingRequests poll, no chronicles/pendingRequests/submissionFee
\* read, no addChronicle), no transaction fetch and no AI call.
C11_InvalidHashIs400WithoutCalls ==
    /\ \A r \in Runs :
          (runs[r].pc # "idle" /\ InvalidTxHash(runs[r].body)) =>
              /\ runs[r].pc = "done"
              /\ runs[r].response.status = 400
              /\ runs[r].w = IdleWaiter
              /\ ~runs[r].waited
              /\ runs[r].fetches = 0
              /\ runs[r].aiCalls = 0
              /\ runs[r].submits = 0
              /\ runs[r].tx = "none"
    /\ (statusCheck.pc # "idle" /\ InvalidTxHash(statusCheck.body)) =>
          /\ statusCheck.pc = "done"
          /\ statusCheck.response.status = 400
          /\ statusCheck.calls = 0

\* Both endpoints have answered a 31-byte hash.
C11_Witness ==
    /\ \E r \in Runs :
          /\ runs[r].pc = "done"
          /\ runs[r].body.given /\ runs[r].body.hex
          /\ runs[r].body.digits = 2 * (HashBytes - 1)
          /\ runs[r].response.status = 400
    /\ statusCheck.pc = "done"
    /\ statusCheck.body.given /\ statusCheck.body.hex
    /\ statusCheck.body.digits = 2 * (HashBytes - 1)
    /\ statusCheck.response.status = 400

\* C14: a 200 answer of the status check has chronicleExists = true exactly
\* when the chronicle read from the ledger is non-empty, and then carries that
\* chronicle unchanged (null otherwise); it has requestPending = true exactly
\* when the pending requester read from the ledger is not the zero address,
\* and then carries that requester (null otherwise). The values read are the
\* ledger's at the time of each read.
C14_StatusReflectsLedger ==
    [][ /\ (statusCheck.pc = "chronicles" /\ statusCheck'.pc = "pendingRequests")
            => statusCheck'.chronicle = ledger.chronicle
        /\ (statusCheck.pc = "pendingRequests" /\ statusCheck'.pc = "submissionFee")
            => statusCheck'.pendingRequester = ledger.pending
        /\ (statusCheck.pc = "submissionFee" /\ statusCheck'.response.status = 200) =>
             LET f == statusCheck
                 res == statusCheck'.response
             IN /\ (res.chronicleExists = "true") <=> (f.chronicle # <<>>)
                /\ IF f.chronicle # <<>>
                   THEN ~res.chronicleIsNull /\ res.chronicle = f.chronicle
                   ELSE res.chronicleIsNull
                /\ (res.requestPending = "true") <=> (f.pendingRequester # ZeroAddress)
                /\ res.requester = IF f.pendingRequester # ZeroAddress
                                   THEN f.pendingRequester ELSE JsNull ]_vars

\* A status check has answered with a chronicle and without a requester, and
\* another could answer with a requester and without a chronicle.
C14_Witness ==
    /\ statusCheck.pc = "done"
    /\ statusCheck.response.status = 200
    /\ statusCheck.response.chronicleExists = "true"
    /\ statusCheck.response.chronicle = ledger.chronicle
    /\ statusCheck.response.requestPending = "false"
    /\ statusCheck.response.requester = JsNull
    /\ ledger.chronicle # <<>>

\* C12: a run whose client disconnected during the wait has issued no
\* transaction fetch, no AI call and no addChronicle submission.
C12_AbandonedRunHasNoSideEffects ==
    \A r \in Runs :
        runs[r].abandoned =>
            /\ runs[r].fetches = 0
            /\ runs[r].aiCalls = 0
            /\ runs[r].submits = 0
            /\ runs[r].tx = "none"

\* C13: a handleAnalyze run whose status check answered chronicleExists or
\* requestPending has sent no POST /api/analyze-transaction.
C13_ShortCircuitSendsNoPost ==
    \A run \in DOMAIN client.statuses :
        client.statuses[run] \in {"exists", "pending"} => client.posts[run] = 0

(***************************************************************************)
(* Properties of the event scans, under SpecScan                           *)
(***************************************************************************)
\* The scan has left its loop.
ScanLoopDone == scan.pc \in {"points", "done"} /\ ~scan.heightFailed

\* One unchunked query over the scanned range.
InRange == QueryFilter(scan.chain.events, scan.startBlock, scan.currentBlock)

\* C15: the chunks of a scan are consecutive and disjoint (each starts one
\* block after the end of the one before, the first at startBlock) and end
\* at currentBlock; when no chunk query fails, the successful queries return
\* exactly the events of one query over [startBlock, currentBlock], each
\* once, and the set or map built from them is the one built from that
\* single query.
C15_ChunkingIsTransparent ==
    /\ scan.pc = "query" =>
          /\ scan.fromBlock = scan.lastTo + 1
          /\ scan.startBlock <= scan.fromBlock
          /\ scan.fromBlock <= scan.currentBlock
          /\ scan.queries = 1 <=> scan.fromBlock = scan.startBlock
    /\ ScanLoopDone => scan.lastTo = scan.currentBlock
    /\ (ScanLoopDone /\ scan.failures = 0) =>
          /\ scan.returned = InRange
          /\ scan.kind = "leaderboard" =>
                scan.users = AddUsers(<<>>, scan.chain.events, InRange)
          /\ (scan.kind = "chronicles" /\ scan.enrichFailed = {}) =>
                scan.chronicles = AddChronicles(<<>>, scan.chain.events, InRange, 0).map

\* A scan of more than ten chunks without a failure has returned two events,
\* one on each side of the first chunk boundary.
C15_Witness ==
    /\ ScanLoopDone /\ scan.failures = 0 /\ scan.enrichFailed = {}
    /\ scan.queries > TopCount
    /\ Len(scan.returned) = 2
    /\ scan.chain.events[scan.returned[1]].block = scan.startBlock + CHUNK_SIZE - 1
    /\ scan.chain.events[scan.returned[2]].block = scan.startBlock + CHUNK_SIZE

\* C16: after a scan in which exactly one chunk query failed, every event of
\* the range outside the failed chunk was returned and, when it passes the
\* handler's test, is in the aggregate; the answer is 200.
C16_OneFailedChunkLosesOnlyItsEvents ==
    (ScanLoopDone /\ scan.failures = 1) =>
        /\ scan.pc = "done" => scan.response.status = 200
        /\ \A i \in Range(InRange) \ scan.lost :
              /\ i \in Range(scan.returned)
              /\ (scan.kind = "leaderboard" /\ scan.chain.events[i].valid) =>
                    scan.chain.events[i].key \in Range(scan.users)
              /\ (scan.kind = "chronicles" /\ scan.chain.events[i].valid
                                           /\ scan.enrichFailed = {}) =>
                    \E j \in DOMAIN scan.chronicles :
                        scan.chronicles[j].txHash = scan.chain.events[i].key

\* A scan lost the events of its one failed chunk, returned those of
\* another and answered 200.
C16_Witness ==
    /\ scan.pc = "done" /\ scan.failures = 1
    /\ scan.response.status = 200
    /\ scan.lost # {}
    /\ scan.returned # <<>>
    /\ \E i \in Range(scan.returned) : scan.chain.events[i].valid

\* Every event of the chain has its own key.
DistinctKeys ==
    \A i, j \in DOMAIN scan.chain.events :
        i # j => scan.chain.events[i].key # scan.chain.events[j].key

\* C17: when the getBlock of exactly one event failed (and no chunk query
\* did), every other event of the range that passes the handler's test is in
\* the list returned.
C17_EnrichmentFailureDropsOneEntry ==
    ( /\ scan.kind = "chronicles" /\ scan.pc = "done" /\ ~scan.heightFailed
      /\ scan.failures = 0 /\ Cardinality(scan.enrichFailed) = 1
      /\ DistinctKeys ) =>
        \A i \in Range(InRange) \ scan.enrichFailed :
            scan.chain.events[i].valid =>
                \E j \in DOMAIN scan.response.chronicles :
                    scan.response.chronicles[j].event = i

\* C18: a scan whose getBlockNumber failed answers 500 and has issued no
\* event query; every other scan answers 200, whatever chunk queries failed.
C18_OnlyHeightFailureIsFatal ==
    scan.pc = "done" =>
        /\ scan.heightFailed => (scan.response.status = 500 /\ scan.queries = 0)
        /\ ~scan.heightFailed => scan.response.status = 200

\* A scan was answered 500 after its getBlockNumber failed.
C18_Witness ==
    /\ scan.pc = "done" /\ scan.heightFailed
    /\ scan.response.status = 500
    /\ scan.chain.events # <<>>

\* C20: every entry of the leaderboard is for an address found by the scan
\* whose userPoints read succeeded, and shows the value that read returned.
C20_PointsAreTheLedgerCounter ==
    (scan.kind = "leaderboard" /\ scan.pc = "done" /\ scan.response.status = 200) =>
        \A j \in DOMAIN scan.response.leaderboard :
            LET entry == scan.response.leaderboard[j]
            IN /\ entry.address \in Range(scan.users)
               /\ scan.reads[entry.address].ok
               /\ entry.points = scan.reads[entry.address].points

\* A leaderboard shows one address with its counter, which is not the number
\* of its events, and leaves out another whose read failed.
C20_Witness ==
    /\ scan.kind = "leaderboard" /\ scan.pc = "done"
    /\ \E a, b \in Range(scan.users) :
          /\ ~scan.reads[a].ok
          /\ scan.reads[b].ok
          /\ scan.reads[b].points # EventCount(scan.chain.events, b)
          /\ scan.response.leaderboard =
                <<[address |-> b, points |-> scan.reads[b].points]>>

(***************************************************************************)
(* Properties of the leaderboard list, under SpecBoard                     *)
(***************************************************************************)
\* C19: the list has at most 10 entries, all of them entries of the data with
\* points > 0, in non-increasing order of points, no address twice; the
\* points A:50, B:0, C:12 give the list (A,50), (C,12).
C19_TopUsersShape ==
    board.pc = "done" =>
        LET list == board.topUsers
        IN /\ Len(list) <= TopCount
           /\ \A j \in DOMAIN list :
                 list[j] \in Range(board.leaderboardData) /\ list[j].points > 0
           /\ \A j \in 1..(Len(list) - 1) : list[j].points >= list[j + 1].points
           /\ \A j, k \in DOMAIN list : j # k => list[j].address # list[k].address
           /\ board.leaderboardData = LeaderboardData(<<50, 0, 12>>) =>
                 list = <<[address |-> 1, points |-> 50], [address |-> 3, points |-> 12]>>

\* A list of ten was made of eleven entries with points, and the list of the
\* example could be made.
C19_Witness ==
    /\ board.pc = "done"
    /\ Len(board.leaderboardData) > TopCount
    /\ Len(board.topUsers) = TopCount
    /\ \A i \in DOMAIN board.leaderboardData : board.leaderboardData[i].points > 0
    /\ board.topUsers[1].points > board.topUsers[TopCount].points

(***************************************************************************)
(* Properties of the chronicle list and of the scanned range, under        *)
(* SpecScan                                                                *)
(***************************************************************************)
\* The list GET /api/chronicles answered with.
ChronicleList == scan.response.chronicles

ChroniclesAnswered ==
    scan.kind = "chronicles" /\ scan.pc = "done" /\ scan.response.status = 200

\* C21: the list of GET /api/chronicles has no transaction hash twice, its
\* total is its length, and (when no getBlock failed) the entry of a hash is
\* made of the last returned event of that hash that passes the handler's test.
C21_OneEntryPerHashLastWins ==
    ChroniclesAnswered =>
        /\ \A j, k \in DOMAIN ChronicleList :
              j # k => ChronicleList[j].txHash # ChronicleList[k].txHash
        /\ scan.response.total = Len(ChronicleList)
        /\ scan.enrichFailed = {} =>
              \A j \in DOMAIN ChronicleList :
                  LET same == {i \in Range(scan.returned) :
                                 /\ scan.chain.events[i].valid
                                 /\ scan.chain.events[i].key = ChronicleList[j].txHash}
                  IN /\ ChronicleList[j].event \in same
                     /\ \A i \in same : i <= ChronicleList[j].event

\* Two events of one hash were scanned and the list has the second one only.
C21_Witness ==
    /\ ChroniclesAnswered
    /\ Len(scan.returned) = 2
    /\ scan.chain.events[1].valid /\ scan.chain.events[2].valid
    /\ scan.chain.events[1].key = scan.chain.events[2].key
    /\ scan.chain.events[1].block < scan.chain.events[2].block
    /\ Len(ChronicleList) = 1
    /\ ChronicleList[1].event = 2
    /\ scan.response.total = 1

\* C22: the list of GET /api/chronicles is in non-increasing order of timestamp.
C22_ChroniclesMostRecentFirst ==
    ChroniclesAnswered =>
        \A j \in 1..(Len(ChronicleList) - 1) :
            ChronicleList[j].timestamp >= ChronicleList[j + 1].timestamp

\* A list of two chronicles of different blocks has the later one first.
C22_Witness ==
    /\ ChroniclesAnswered
    /\ Len(ChronicleList) = 2
    /\ ChronicleList[1].timestamp > ChronicleList[2].timestamp
    /\ ChronicleList[1].event > ChronicleList[2].event

\* C23: a scan covers the lookback's number of blocks ending at the current
\* height (10,000 for the leaderboard, 50,000 for the chronicles), or the
\* whole chain when that is shorter, and returns no event of an older block.
C23_ScanCoversExactlyTheLookback ==
    (scan.pc # "height" /\ ~scan.heightFailed) =>
        /\ scan.currentBlock - scan.startBlock + 1 =
              Min(LookbackBlocks(scan.kind), scan.currentBlock + 1)
        /\ \A i \in Range(scan.returned) :
              scan.chain.events[i].block > scan.currentBlock - LookbackBlocks(scan.kind)

(***************************************************************************)
(* Further properties of POST /api/analyze-transaction, under Spec         *)
(***************************************************************************)
\* C24: every failure answer of POST /api/analyze-transaction carries an
\* error kind next to its message.
C24_FailuresCarryErrorKind ==
    \A r \in Runs :
        (runs[r].pc = "done" /\ runs[r].response.status # 200) =>
            /\ runs[r].response.message # NoValue
            /\ runs[r].response.error # NoValue

\* C25: a run whose getTransaction finds no transaction is answered 404
\* 'Transaction not found', and a run answered 404 had its pending request
\* confirmed and has made no AI call and no addChronicle submission.
C25_MissingTransactionIs404 ==
    \A r \in Runs :
        /\ runs[r].pc = "fetch" =>
              LET answered == AfterFetch(runs[r], "null")
              IN /\ answered.pc = "done"
                 /\ answered.response.status = 404
                 /\ answered.aiCalls = 0
                 /\ answered.submits = 0
        /\ runs[r].response.status = 404 =>
              /\ runs[r].pc = "done"
              /\ runs[r].waited /\ runs[r].hasPendingRequest
              /\ runs[r].fetches = 1
              /\ runs[r].aiCalls = 0
              /\ runs[r].submits = 0
              /\ runs[r].tx = "none"
              /\ runs[r].response.message = "Transaction not found on Somnia network."

\* A run was answered 404 while the pending request it saw is on the ledger.
C25_Witness ==
    \E r \in Runs :
        /\ runs[r].pc = "done"
        /\ runs[r].response.status = 404
        /\ runs[r].hasPendingRequest
        /\ ledger.pending # ZeroAddress
        /\ ledger.added = 0

(***************************************************************************)
(* Further properties of the client, under SpecClient                      *)
(***************************************************************************)
\* Nothing of the page is under way: no status check, write or receipt is
\* awaited, no timer is set, no POST is unanswered.
ClientAtRest ==
    /\ client.pc = "idle"
    /\ client.write # "pending"
    /\ client.receipt # "confirming"
    /\ ~client.fallback.armed
    /\ client.errorTimers = <<>>
    /\ client.inflight = 0

\* C26: once a POST was answered with a failure of the analysis, a later
\* handleAnalyze run (of the page as it is now) whose status check finds the
\* request still pending has sent POST /api/analyze-transaction by the time
\* the page is at rest.
C26_RetryReachesTheServer ==
    \A run \in DOMAIN client.statuses :
        ( /\ client.failedAt # 0
          /\ run > client.failedAt
          /\ run > client.reloadedAt
          /\ client.statuses[run] = "pending"
          /\ ClientAtRest ) =>
            client.posts[run] >= 1

(***************************************************************************)
(* Completeness of the two lists, under SpecScan                           *)
(***************************************************************************)
\* C27: when no query and no counter read failed, every address that has
\* submitted a request and has a positive counter on the ledger is in the
\* leaderboard with that counter (the model has fewer than 10 addresses).
C27_LeaderboardIsTopOfAllUsers ==
    ( /\ scan.kind = "leaderboard" /\ scan.pc = "done"
      /\ scan.response.status = 200
      /\ scan.failures = 0
      /\ \A k \in Range(scan.users) : scan.reads[k].ok ) =>
        \A k \in EventKeys :
            (scan.counters[k] > 0 /\ EventCount(scan.chain.events, k) > 0) =>
                \E j \in DOMAIN scan.response.leaderboard :
                    scan.response.leaderboard[j] =
                        [address |-> k, points |-> scan.counters[k]]

\* C28: when no query and no getBlock failed, every ChronicleAdded event of
\* the chain with a non-empty narrative has its hash in the list, and the
\* total is the number of hashes that have such an event.
C28_ChroniclesListIsComplete ==
    ( /\ ChroniclesAnswered
      /\ scan.failures = 0 /\ scan.enrichFailed = {}
      /\ \A i \in DOMAIN scan.chain.events : scan.chain.events[i].valid ) =>
        /\ \A i \in DOMAIN scan.chain.events :
              \E j \in DOMAIN ChronicleList :
                  ChronicleList[j].txHash = scan.chain.events[i].key
        /\ scan.response.total =
              Cardinality({scan.chain.events[i].key : i \in DOMAIN scan.chain.events})

(***************************************************************************)
(* The order of the steps of a run, under Spec                             *)
(***************************************************************************)
\* C29: a run fetches the transaction only after its waiter returned true,
\* calls the AI only after that fetch, and submits addChronicle only after an
\* AI call that did not throw; each step happens at most once. The request
\* may arrive before any pending request is on the ledger.
C29_StepsInOrder ==
    \A r \in Runs :
        /\ runs[r].fetches <= 1 /\ runs[r].aiCalls <= 1 /\ runs[r].submits <= 1
        /\ runs[r].submits <= runs[r].aiCalls
        /\ runs[r].aiCalls <= runs[r].fetches
        /\ runs[r].fetches > 0 => (runs[r].waited /\ runs[r].hasPendingRequest)
        /\ runs[r].submits > 0 => ~runs[r].aiThrew
        /\ runs[r].tx # "none" => runs[r].submits = 1
        /\ runs[r].pc = "waiting" =>
              (runs[r].fetches = 0 /\ runs[r].aiCalls = 0 /\ runs[r].submits = 0)
        /\ runs[r].pc = "fetch" => (runs[r].aiCalls = 0 /\ runs[r].submits = 0)
        /\ runs[r].pc = "ai" => runs[r].submits = 0

\* A run has gone through all four steps and was answered 200, while another
\* request is still polling.
C29_Witness ==
    \E r, q \in Runs :
        /\ runs[r].pc = "done"
        /\ runs[r].response.status = 200
        /\ runs[r].hasPendingRequest
        /\ runs[r].fetches = 1 /\ runs[r].aiCalls = 1 /\ runs[r].submits = 1
        /\ runs[q].pc = "waiting"

(***************************************************************************)
(* The pacing of waitForPendingRequest, under SpecWaiter                   *)
(***************************************************************************)
\* C30: every attempt after the first starts a full delay after the one
\* before it, so a call in its n-th attempt has waited at least (n - 1) *
\* delayMs, and a call that used up its attempts has waited maxAttempts *
\* delayMs (two minutes for 60 attempts of 2000 ms).
C30_AttemptsAreSpacedByTheDelay ==
    /\ waiter.pc \in {"read", "delay"} =>
          wobs.elapsed >= (waiter.attempt - 1) * waiter.delayMs
    /\ WaiterReturnedFalse =>
          wobs.elapsed = waiter.maxAttempts * waiter.delayMs

(***************************************************************************)
(* Termination of POST /api/analyze-transaction, under SpecFair            *)
(***************************************************************************)
\* The run was answered, once, with one of the handler's four statuses.
Answered(r) ==
    /\ runs[r].pc = "done"
    /\ runs[r].response.status \in {200, 400, 404, 500}

\* C31: a request that arrived is answered in the end, with 200, 400, 404 or
\* 500; a run is at no await once it was answered, so it answers once; and
\* the polling loop never starts a read beyond the 60th attempt.
C31_EveryRequestIsAnsweredOnce ==
    /\ \A r \in Runs : (runs[r].pc # "idle") ~> Answered(r)
    /\ [](\A r \in Runs :
            /\ runs[r].response.status # 0 => Answered(r)
            /\ runs[r].pc = "waiting" =>
                  /\ runs[r].w.pc \in {"read", "delay"}
                  /\ runs[r].w.attempt >= 1
                  /\ runs[r].w.attempt <= AnalyzeMaxAttempts)
    /\ [][\A r \in Runs :
            runs[r].response.status # 0 => runs'[r].response = runs[r].response]_vars

\* One run was answered 400 after its 60 reads found no pending request, and
\* another was answered 200.
C31_Witness ==
    \E r, q \in Runs :
        /\ Answered(r)
        /\ runs[r].response.error = "PENDING_REQUEST_NOT_FOUND"
        /\ runs[r].waited /\ ~runs[r].hasPendingRequest
        /\ Answered(q)
        /\ runs[q].response.status = 200

(***************************************************************************)
(* The fee and the status check, under SpecClient                          *)
(***************************************************************************)
\* C32: the client calls writeContract with the fee only in the step in which
\* the status check of the current run answered successfully with
\* chronicleExists = false and requestPending = false; after an error answer
\* (a 400 or 500 body without those fields) no fee is submitted.
C32_FeeOnlyAfterSuccessfulCheck ==
    [][client'.fees > client.fees =>
          /\ client.pc = "checking"
          /\ client'.statuses[client.clicks] = "neither"]_vars

(***************************************************************************)
(* The narrative handed to addChronicle, under Spec                        *)
(***************************************************************************)
\* C33: a run that called contract.addChronicle passed it a non-empty
\* narrative: an AI answer whose message content is missing, empty or only
\* whitespace fails the run before the commit step.
C33_NarrativeSubmittedIsNonEmpty ==
    \A r \in Runs : runs[r].submits > 0 => runs[r].narrative # <<>>
====
